---- MODULE Spec2Model ----
(***************************************************************************)
(* Generative Art Studio (App component): the three canvas generators      *)
(* drawTree, drawSpirograph and drawFlowField, the animate frame callback  *)
(* and the two effects that render and start/stop the animation.           *)
(*                                                                         *)
(* Numbers are fixed point.  Angles of the animation are hundredths of a   *)
(* turn, sines are thousandths, tree and spirograph parameters are         *)
(* thousandths of their unit, noiseScale is millionths, positions of the   *)
(* flow field are tenths of a pixel, hues are whole degrees.               *)
(***************************************************************************)
EXTENDS Integers, Sequences, FiniteSets, TLC

VARIABLES
    pattern,            \* useState<PatternType>
    isAnimating,        \* useState<boolean>
    animationProgress,  \* useState<number>, hundredths
    useRainbow,         \* useState<boolean>
    baseHue,            \* useState<number>, degrees
    treeParams,         \* useState<TreeParams>
    spiroParams,        \* useState<SpirographParams>
    flowParams,         \* useState<FlowParams>
    animationRef,       \* useRef: id of the requested frame, 0 for null
    frames,             \* requested animation frames, each with the closure of its animate
    lastFrameId,        \* the id the latest requestAnimationFrame returned
    mounted,            \* the component is mounted (canvasRef.current set)
    drawPending,        \* a dependency of the draw effect changed, effect not yet run
    drawn,              \* what the latest run of the draw effect read
    rendersSinceTick,   \* runs of the draw effect since the latest run of animate
    ticks,              \* number of runs of animate
    inputs,             \* number of control inputs so far
    ctx,                \* CanvasRenderingContext2D state
    surface,            \* what is on the canvas bitmap, oldest first
    pc,                 \* position of the generator that is running
    callStack,          \* drawBranch activation records, innermost last
    loopP,              \* drawFlowField: particle index p
    loopI,              \* loop index i of the spirograph / flow inner loop
    pos,                \* drawFlowField: particle position <<x, y>>
    stroked,            \* the path of the latest ctx.stroke()
    noiseArgs,          \* arguments <<x, y>> of the latest call of noise, thousandths
    noiseValue,         \* what the latest call of noise returned, thousandths
    runs                \* drawFlowField: start, jitters and positions of the first
                        \* particle and of the particle being traced

vars == <<pattern, isAnimating, animationProgress, useRainbow, baseHue,
          treeParams, spiroParams, flowParams, animationRef, frames,
          lastFrameId, mounted, drawPending, drawn, rendersSinceTick, ticks, inputs,
          ctx, surface, pc, callStack,
          loopP, loopI, pos, stroked, noiseArgs, noiseValue, runs>>

appVars == <<pattern, isAnimating, animationProgress, animationRef, frames,
             lastFrameId, mounted, drawPending, drawn, rendersSinceTick, ticks,
             inputs>>

noiseVars == <<noiseArgs, noiseValue, runs>>

(***************************************************************************)
(* Bounds of the model.                                                    *)
(***************************************************************************)
MaxDepth == 3
MaxBranches == 3
MaxStack == 5

(***************************************************************************)
(* Initial state of the component (useState / useRef initial values).      *)
(***************************************************************************)
InitTreeParams ==
    [branchAngle |-> 25000, depth |-> 9, branches |-> 2,
     lengthRatio |-> 67, thickness |-> 10000]

InitSpiroParams ==
    [outerRadius |-> 200000, innerRadius |-> 100000, offset |-> 50000,
     speed |-> 50, iterations |-> 500]

InitFlowParams ==
    [particles |-> 100, steps |-> 100, noiseScale |-> 10000,
     flowStrength |-> 20, alpha |-> 30]

\* A fresh 2D context: no path, no shadow, full opacity, nothing saved.
InitCtx ==
    [path |-> <<>>, strokeStyle |-> -1, shadowBlur |-> 0, globalAlpha |-> 100,
     saved |-> <<>>]

\* canvas size in tenths of a pixel (getBoundingClientRect of the canvas)
CanvasWidth == 8000
CanvasHeight == 6000

(***************************************************************************)
(* Math.sin / Math.cos and noise                                           *)
(***************************************************************************)
\* Math.sin of a quarter turn, by hundredths of a turn, in thousandths
SinQuarter ==
    <<0, 63, 125, 187, 249, 309, 368, 426, 482, 536, 588, 637, 685, 729, 771,
      809, 844, 876, 905, 930, 951, 969, 982, 992, 998, 1000>>

\* Math.sin(p * Math.PI * 2) for p in hundredths, in thousandths
SinHundredths(p) ==
    LET r == p % 100 IN
    IF r <= 25 THEN SinQuarter[r + 1]
    ELSE IF r <= 50 THEN SinQuarter[51 - r]
    ELSE IF r <= 75 THEN -SinQuarter[r - 49]
    ELSE -SinQuarter[101 - r]

\* Math.sin and Math.cos of an angle in thousandths of a radian, in
\* thousandths: the angle is reduced to hundredths of a turn (2 pi = 6.283)
SinRad(m) == SinHundredths((m * 100) \div 6283)
CosRad(m) == SinHundredths((m * 100) \div 6283 + 25)

\* the three octaves of noise as weights of a sum, in quarters
NoiseWeightsEqual == <<4, 4, 4>>
NoiseWeights == <<4, 2, 1>>

\* one octave of noise:  Math.sin(x * f + ph) * Math.cos(y * f + ph)  with
\* f = 0.01 * k and ph = 10 * (k - 1); x and y in thousandths, the product in
\* millionths
Octave(x, y, k) ==
    SinRad((k * x) \div 100 + 10000 * (k - 1)) * CosRad((k * y) \div 100 + 10000 * (k - 1))

\* noise(x, y), x and y in thousandths, the value in thousandths
noise(x, y) ==
    (NoiseWeights[1] * Octave(x, y, 1) + NoiseWeights[2] * Octave(x, y, 2)
       + NoiseWeights[3] * Octave(x, y, 3)) \div 4000

(***************************************************************************)
(* drawTree / drawBranch                                                   *)
(***************************************************************************)
\* the fixed background fill that opens drawTree and drawSpirograph
ClearFill == [op |-> "fillRect", alpha |-> 100]

\* ctx.fillRect over the whole canvas with globalAlpha a (percent): an opaque
\* fill leaves nothing of what was drawn before, a translucent one fades it.
FillRect(surf, a) ==
    IF a = 100 THEN <<ClearFill>>
    ELSE Append(surf, [op |-> "fillRect", alpha |-> a])

\* one activation of drawBranch
BranchFrame(node, depth, length, angle) ==
    [node |-> node, depth |-> depth, length |-> length, angle |-> angle,
     at |-> "body", i |-> 0]

\* if (depth <= 0) return
IsBaseCaseOffByOne(depth) == depth <= 1
IsBaseCase(depth) == depth <= 0

\* the depth argument of the recursive call
ChildDepthSame(depth) == depth
ChildDepth(depth) == depth - 1

\* if (depth > treeParams.depth - 3): the glow re-stroke
HasGlow(depth) == depth > treeParams.depth - 3

\* offset = angleStep * (i - (branches - 1) / 2), in half angle steps
ChildOffsetFromHalf(i) == 2 * i - treeParams.branches
ChildOffset(i) == 2 * i - (treeParams.branches - 1)

MoveTo(pt) == [cmd |-> "moveTo", pt |-> pt]
LineTo(pt) == [cmd |-> "lineTo", pt |-> pt]

\* ctx.stroke(): the current path reaches the bitmap with the current style;
\* seg names what is stroked, n is the number of line segments of the path
StrokeOp(gen, seg, c) ==
    [op |-> "stroke", gen |-> gen, seg |-> seg, n |-> Len(c.path) - 1,
     hue |-> c.strokeStyle, blur |-> c.shadowBlur, alpha |-> c.globalAlpha]

Front(s) == SubSeq(s, 1, Len(s) - 1)

Top == callStack[Len(callStack)]
Pop == Front(callStack)

\* hsl hue of a branch; with treeParams.depth = 0 the quotient is NaN, the
\* colour string is invalid and the assignment to strokeStyle is ignored
TreeHue(depth, old) ==
    IF ~useRainbow THEN baseHue
    ELSE IF treeParams.depth = 0 THEN old
    ELSE baseHue + (depth * 120) \div treeParams.depth

\* drawTree up to its call of drawBranch
DrawTree ==
    /\ pc = "drawTree"
    /\ surface' = FillRect(surface, ctx.globalAlpha)
    /\ callStack' = <<BranchFrame(<<0>>, treeParams.depth, CanvasHeight * 25,
                                  0)>>
    /\ pc' = "drawBranch"
    /\ UNCHANGED <<appVars, useRainbow, baseHue, treeParams, spiroParams, noiseVars,
                   flowParams, ctx, loopP, loopI, pos, stroked>>

\* drawBranch from its entry to the base case test
DrawBranchBody ==
    /\ pc = "drawBranch"
    /\ callStack # <<>>
    /\ Top.at = "body"
    /\ LET f == Top
           seg == [ctx EXCEPT !.path = <<MoveTo(Front(f.node)), LineTo(f.node)>>,
                              !.strokeStyle = TreeHue(f.depth, @)]
           plain == StrokeOp("tree", f.node, seg)
           glow == StrokeOp("tree", f.node, [seg EXCEPT !.shadowBlur = 10])
       IN /\ surface' = IF HasGlow(f.depth)
                        THEN surface \o <<plain, glow>>
                        ELSE Append(surface, plain)
          /\ ctx' = IF HasGlow(f.depth) THEN [seg EXCEPT !.shadowBlur = 0] ELSE seg
          /\ stroked' = seg.path
          /\ IF IsBaseCase(f.depth)
             THEN /\ callStack' = Pop
                  /\ pc' = IF Len(callStack) = 1 THEN "done" ELSE pc
             ELSE /\ callStack' = [callStack EXCEPT ![Len(callStack)].at = "loop"]
                  /\ pc' = pc
    /\ UNCHANGED <<appVars, useRainbow, baseHue, treeParams, spiroParams, noiseVars,
                   flowParams, loopP, loopI, pos>>

\* one test of the for loop of drawBranch: the next recursive call, or return
DrawBranchLoop ==
    /\ pc = "drawBranch"
    /\ callStack # <<>>
    /\ Top.at = "loop"
    /\ LET f == Top IN
       IF f.i < treeParams.branches
       THEN /\ Len(callStack) < MaxStack
            /\ callStack' =
                 Append([callStack EXCEPT ![Len(callStack)].i = f.i + 1],
                        BranchFrame(Append(f.node, f.i), ChildDepth(f.depth),
                                    (f.length * treeParams.lengthRatio) \div 100,
                                    f.angle + ChildOffset(f.i)))
            /\ pc' = pc
       ELSE /\ callStack' = Pop
            /\ pc' = IF Len(callStack) = 1 THEN "done" ELSE pc
    /\ UNCHANGED <<appVars, useRainbow, baseHue, treeParams, spiroParams, noiseVars,
                   flowParams, ctx, surface, loopP, loopI, pos, stroked>>

TreeDepths == 0 .. MaxDepth
TreeBranches == 1 .. MaxBranches
TreeRatios == {67, 100, 150}

\* before the draw effect has run
NotDrawn == [gen |-> "none"]

\* The part of the initial state that no generator run varies.
InitIdle ==
    /\ isAnimating = FALSE
    /\ animationProgress = 0
    /\ animationRef = 0
    /\ frames = {}
    /\ lastFrameId = 0
    /\ mounted = TRUE
    /\ drawPending = FALSE
    /\ rendersSinceTick = 0
    /\ ticks = 0
    /\ inputs = 0
    /\ ctx = InitCtx
    /\ callStack = <<>>
    /\ loopP = 0
    /\ loopI = 0
    /\ pos = <<0, 0>>
    /\ stroked = <<>>
    /\ noiseArgs = <<0, 0>>
    /\ noiseValue = 0
    /\ runs = <<>>

\* One call of drawTree, for every tree the bounds allow.
InitTree ==
    /\ InitIdle
    /\ drawn = NotDrawn
    /\ pattern = "tree"
    /\ useRainbow \in BOOLEAN
    /\ baseHue = 200
    /\ treeParams \in [branchAngle : {25000}, depth : TreeDepths,
                       branches : TreeBranches, lengthRatio : TreeRatios,
                       thickness : {10000}]
    /\ spiroParams = InitSpiroParams
    /\ flowParams = InitFlowParams
    /\ pc = "drawTree"
    /\ surface = <<>>

NextTree == DrawTree \/ DrawBranchBody \/ DrawBranchLoop

SpecTree == InitTree /\ [][NextTree]_vars

\* drawBranch is synchronous code: it keeps running until it returns
FairSpecTree == SpecTree /\ WF_vars(NextTree)

(***************************************************************************)
(* drawSpirograph                                                          *)
(***************************************************************************)
MaxIterations == 4

\* ctx.save() / ctx.restore(): the drawing state without the current path
Save(c) ==
    [c EXCEPT !.saved = Append(@, [strokeStyle |-> c.strokeStyle,
                                   shadowBlur |-> c.shadowBlur,
                                   globalAlpha |-> c.globalAlpha])]

RestoreNothing(c) == c
Restore(c) ==
    IF c.saved = <<>> THEN c
    ELSE LET t == c.saved[Len(c.saved)] IN
         [c EXCEPT !.strokeStyle = t.strokeStyle, !.shadowBlur = t.shadowBlur,
                   !.globalAlpha = t.globalAlpha, !.saved = Front(@)]

\* for (let i = 0; i <= iterations; i++)
SpiroLoopExclusive(i) == i < spiroParams.iterations
SpiroLoopContinues(i) == i <= spiroParams.iterations

\* hue = useRainbow ? baseHue + (i / iterations) * 360 : baseHue, then
\* hue % 360 in the colour string (whole degrees)
SpiroHue(i) ==
    IF useRainbow
    THEN (baseHue + (i * 360) \div spiroParams.iterations) % 360
    ELSE baseHue % 360

\* if (i === 0) moveTo(x, y) else lineTo(x, y); the sample of index i stands
\* for its coordinates, which are a function of i and spiroParams
SpiroPathCmd(i) == IF i = 0 THEN MoveTo(i) ELSE LineTo(i)

\* drawSpirograph up to the first loop
DrawSpirograph ==
    /\ pc = "drawSpirograph"
    /\ surface' = FillRect(surface, ctx.globalAlpha)
    /\ ctx' = [Save(ctx) EXCEPT !.globalAlpha = 70, !.path = <<>>]
    /\ loopI' = 0
    /\ pc' = "spiroCurve"
    /\ UNCHANGED <<appVars, useRainbow, baseHue, treeParams, spiroParams, noiseVars,
                   flowParams, callStack, loopP, pos, stroked>>

\* one test of the first loop: a sample, or the stroke of the curve and the
\* set-up of the glow pass
SpiroCurveStep ==
    /\ pc = "spiroCurve"
    /\ IF SpiroLoopContinues(loopI)
       THEN /\ ctx' = [ctx EXCEPT !.strokeStyle = SpiroHue(loopI),
                                  !.path = Append(@, SpiroPathCmd(loopI))]
            /\ loopI' = loopI + 1
            /\ UNCHANGED <<surface, stroked, pc>>
       ELSE /\ surface' = Append(surface, StrokeOp("spirograph", "curve", ctx))
            /\ stroked' = ctx.path
            /\ ctx' = [Save(Restore(ctx)) EXCEPT !.shadowBlur = 15,
                                                 !.globalAlpha = 50,
                                                 !.path = <<>>]
            /\ loopI' = 0
            /\ pc' = "spiroGlow"
    /\ UNCHANGED <<appVars, useRainbow, baseHue, treeParams, spiroParams, noiseVars,
                   flowParams, callStack, loopP, pos>>

\* one test of the second loop: a sample, or the glow stroke and the return
SpiroGlowStep ==
    /\ pc = "spiroGlow"
    /\ IF SpiroLoopContinues(loopI)
       THEN /\ ctx' = [ctx EXCEPT !.path = Append(@, SpiroPathCmd(loopI))]
            /\ loopI' = loopI + 1
            /\ UNCHANGED <<surface, stroked, pc>>
       ELSE /\ surface' = Append(surface, StrokeOp("spirograph", "glow", ctx))
            /\ stroked' = ctx.path
            /\ ctx' = Restore(ctx)
            /\ loopI' = loopI
            /\ pc' = "done"
    /\ UNCHANGED <<appVars, useRainbow, baseHue, treeParams, spiroParams, noiseVars,
                   flowParams, callStack, loopP, pos>>

\* values of the base hue slider (min 0, max 360) used by the generator runs
HueInputs == {0, 200, 300, 360}

\* One call of drawSpirograph, for every iteration count the bounds allow.
InitSpiro ==
    /\ InitIdle
    /\ drawn = NotDrawn
    /\ pattern = "spirograph"
    /\ useRainbow \in BOOLEAN
    /\ baseHue \in HueInputs
    /\ treeParams = InitTreeParams
    /\ spiroParams \in [outerRadius : {200000}, innerRadius : {100000},
                        offset : {50000}, speed : {50},
                        iterations : 1 .. MaxIterations]
    /\ flowParams = InitFlowParams
    /\ pc = "drawSpirograph"
    /\ surface = <<>>

NextSpiro == DrawSpirograph \/ SpiroCurveStep \/ SpiroGlowStep

SpecSpiro == InitSpiro /\ [][NextSpiro]_vars

(***************************************************************************)
(* drawFlowField                                                           *)
(***************************************************************************)
MaxParticles == 2
MaxSteps == 2

\* Math.cos of a heading, in thousandths; headings are eighths of a turn
CosTable == <<1000, 707, 0, -707, -1000, -707, 0, 707>>

Turn == Len(CosTable)

\* Math.cos and Math.sin of a heading, in thousandths
Cos1000(a) == CosTable[(a % Turn) + 1]
Sin1000(a) == CosTable[((a + 6) % Turn) + 1]

\* a product of a thousandths factor, rounded towards zero
Scale(v, k) == IF v * k >= 0 THEN (v * k) \div 1000 ELSE -((-(v * k)) \div 1000)

\* Wrap around edges:  if (x < 0) x = width;  if (x > width) x = 0;
Wrap(v, size) ==
    LET w == IF v < 0 THEN size ELSE v
    IN IF w > size THEN 0 ELSE w

\* x += Math.cos(angle + jitter) * flowStrength, y likewise, then the wrap
FlowMove(p, heading) ==
    <<Wrap(p[1] + Scale(Cos1000(heading), flowParams.flowStrength), CanvasWidth),
      Wrap(p[2] + Scale(Sin1000(heading), flowParams.flowStrength), CanvasHeight)>>

\* hue = useRainbow ? (baseHue + (i / steps) * 360) % 360 : baseHue
FlowHue(i) ==
    IF useRainbow
    THEN (baseHue + (i * 360) \div flowParams.steps) % 360
    ELSE baseHue

\* ctx.beginPath(); ctx.moveTo(x, y) after the stroke of a step
PathKeptAfterStroke(path, p) == Append(path, MoveTo(p))
PathAfterStroke(path, p) == <<MoveTo(p)>>

\* Math.random() * width and Math.random() * height: start positions
StartXs == {5, CanvasWidth - 5}
StartYs == {5, CanvasHeight - 5}

\* x * flowParams.noiseScale, in thousandths
NoiseArg(v) == (v * flowParams.noiseScale) \div 10000

\* angle = noiseValue * Math.PI * 4, as the nearest heading (two turns for 1)
NoiseHeadingOfParticle(nv) == (nv * 2 * Turn + 500) \div 1000 + loopP
NoiseHeading(nv) == (nv * 2 * Turn + 500) \div 1000

\* the jitter (Math.random() - 0.5) * 0.5 radians, which is less than an eighth
\* of a turn and moves the heading to a neighbouring one at most
Jitters == {-1, 0, 1}

\* the record of one particle: where it started, the jitters it drew and the
\* positions it took
NewRun(start) == [start |-> start, jitters |-> <<>>, at |-> <<>>]

\* drawFlowField up to the particle loop: the fade overlay
DrawFlowField ==
    /\ pc = "drawFlowField"
    /\ surface' = FillRect(surface, 15)
    /\ ctx' = Restore(Save(ctx))
    /\ loopP' = 0
    /\ pc' = "flowParticles"
    /\ UNCHANGED <<appVars, useRainbow, baseHue, treeParams, spiroParams, noiseVars,
                   flowParams, callStack, loopI, pos, stroked>>

\* one test of the particle loop: a new particle at a random place, or return
FlowParticle ==
    /\ pc = "flowParticles"
    /\ IF loopP < flowParams.particles
       THEN \E x \in StartXs, y \in StartYs :
              /\ pos' = <<x, y>>
              /\ ctx' = [Save(ctx) EXCEPT !.path = <<MoveTo(<<x, y>>)>>]
              /\ loopI' = 0
              /\ runs' = IF loopP = 0 THEN <<NewRun(<<x, y>>)>>
                                      ELSE <<runs[1], NewRun(<<x, y>>)>>
              /\ pc' = "flowSteps"
       ELSE /\ pc' = "done"
            /\ UNCHANGED <<pos, ctx, loopI, runs>>
    /\ UNCHANGED <<appVars, useRainbow, baseHue, treeParams, spiroParams,
                   noiseArgs, noiseValue,
                   flowParams, callStack, loopP, surface, stroked>>

\* one test of the step loop: a step with its stroke, or the end of the particle
FlowStep ==
    /\ pc = "flowSteps"
    /\ IF loopI < flowParams.steps
       THEN \E jitter \in Jitters :
              LET args == <<NoiseArg(pos[1]), NoiseArg(pos[2])>>
                  nv == noise(args[1], args[2])
                  to == FlowMove(pos, NoiseHeading(nv) + jitter + 3 * Turn)
                  c == [ctx EXCEPT !.path = Append(@, LineTo(to)),
                                   !.strokeStyle = FlowHue(loopI),
                                   !.globalAlpha = flowParams.alpha]
              IN /\ pos' = to
                 /\ surface' = Append(surface, StrokeOp("flow", <<loopP, loopI>>, c))
                 /\ stroked' = c.path
                 /\ ctx' = [c EXCEPT !.path = PathAfterStroke(@, to)]
                 /\ loopI' = loopI + 1
                 /\ noiseArgs' = args
                 /\ noiseValue' = nv
                 /\ runs' = [runs EXCEPT ![Len(runs)] =
                                [@ EXCEPT !.jitters = Append(@, jitter),
                                          !.at = Append(@, to)]]
                 /\ UNCHANGED <<loopP, pc>>
       ELSE /\ ctx' = Restore(ctx)
            /\ loopP' = loopP + 1
            /\ pc' = "flowParticles"
            /\ UNCHANGED <<pos, surface, stroked, loopI, noiseVars>>
    /\ UNCHANGED <<appVars, useRainbow, baseHue, treeParams, spiroParams,
                   flowParams, callStack>>

\* values of the flow strength slider (1 to 5 pixels), in tenths of a pixel
FlowStrengths == {10, 20}

\* values of the noise scale slider (1 to 50 thousandths), in millionths
NoiseScales == {10000}

\* One call of drawFlowField, for every particle and step count the bounds allow.
InitFlow ==
    /\ InitIdle
    /\ drawn = NotDrawn
    /\ pattern = "flow"
    /\ useRainbow \in BOOLEAN
    /\ baseHue = 200
    /\ treeParams = InitTreeParams
    /\ spiroParams = InitSpiroParams
    /\ flowParams \in [particles : 1 .. MaxParticles, steps : 1 .. MaxSteps,
                       noiseScale : NoiseScales, flowStrength : FlowStrengths,
                       alpha : {30}]
    /\ pc = "drawFlowField"
    /\ surface = <<>>

NextFlow == DrawFlowField \/ FlowParticle \/ FlowStep

SpecFlow == InitFlow /\ [][NextFlow]_vars

(***************************************************************************)
(* The three generators, each called on a context as the draw effect       *)
(* hands it over                                                           *)
(***************************************************************************)
\* One call of one of the generators; of drawFlowField the calls in rainbow
\* mode with the smaller flow strength.
InitGen ==
    \/ InitTree
    \/ InitSpiro
    \/ (InitFlow /\ useRainbow /\ flowParams.flowStrength = 10)

NextGen == NextTree \/ NextSpiro \/ NextFlow

SpecGen == InitGen /\ [][NextGen]_vars

(***************************************************************************)
(* noise on its own                                                        *)
(***************************************************************************)
MaxNoiseArg == 8

\* arguments of noise, in thousandths: sixteenths of the period of the first
\* octave (2 pi / 0.01 = 628.3), on both sides of zero
NoiseInputs == {(i * 628319) \div 16 : i \in -MaxNoiseArg .. MaxNoiseArg}

\* a call noise(x, y)
NoiseCall ==
    /\ pc = "noise"
    /\ \E x \in NoiseInputs, y \in NoiseInputs :
         /\ noiseArgs' = <<x, y>>
         /\ noiseValue' = noise(x, y)
    /\ UNCHANGED <<appVars, useRainbow, baseHue, treeParams, spiroParams,
                   flowParams, ctx, surface, pc, callStack, loopP, loopI, pos,
                   stroked, runs>>

\* Calls of noise, for every pair of arguments the bounds allow.
InitNoise ==
    /\ InitIdle
    /\ drawn = NotDrawn
    /\ pattern = "flow"
    /\ useRainbow = TRUE
    /\ baseHue = 200
    /\ treeParams = InitTreeParams
    /\ spiroParams = InitSpiroParams
    /\ flowParams = InitFlowParams
    /\ pc = "noise"
    /\ surface = <<>>

NextNoise == NoiseCall

SpecNoise == InitNoise /\ [][NextNoise]_vars

(***************************************************************************)
(* The component: controls, the animate frame callback, the two effects    *)
(***************************************************************************)
MaxTicks == 3
MaxInputs == 3

Patterns == {"tree", "spirograph", "flow"}

\* setAnimationProgress((prev) => (prev + 0.01) % 1)
ProgressStepNoWrap(prev) == prev + 1
ProgressStep(prev) == (prev + 1) % 100

\* the three modulated values of animate, from the progress it reads
AnimatedAngle(p) == 25000 + SinHundredths(p) * 10
AnimatedInnerDeep(p) == 100000 + SinHundredths(p) * 130
AnimatedInner(p) == 100000 + SinHundredths(p) * 30
AnimatedScale(p) == 10000 + SinHundredths(p) * 5

\* animate is a closure of the render that created it: it reads the pattern
\* and animationProgress of that render
AnimateClosure == [pattern |-> pattern, animationProgress |-> animationProgress]

RequestAnimationFrame(pending, id, closure) ==
    pending \cup {[id |-> id, closure |-> closure]}

CancelAnimationFrameStale(pending, id) == {f \in pending : f.id # id - 1}
CancelAnimationFrame(pending, id) == {f \in pending : f.id # id}

\* if (animationRef.current) cancelAnimationFrame(animationRef.current)
CancelNothing(pending) == pending
CancelCurrent(pending) ==
    IF animationRef # 0 THEN CancelAnimationFrame(pending, animationRef)
    ELSE pending

\* canvas.width = rect.width; canvas.height = rect.height: setting the size of
\* a canvas, also to the value it has, clears its bitmap and resets its context
ResizeCanvas(surf) == <<>>

\* what one generator call leaves on the bitmap, as one entry
RenderOp(gen) == [op |-> "render", gen |-> gen]

\* the effect on the bitmap of the generator selected by the draw effect
GenerateSwapped(pat, surf) ==
    IF pat = "flow" THEN Append(FillRect(surf, 100), RenderOp("spirograph"))
    ELSE IF pat = "spirograph" THEN Append(FillRect(surf, 15), RenderOp("flow"))
    ELSE Append(FillRect(surf, 100), RenderOp(pat))
Generate(pat, surf) ==
    IF pat = "flow" THEN Append(FillRect(surf, 15), RenderOp(pat))
    ELSE Append(FillRect(surf, 100), RenderOp(pat))

\* the body of the draw effect
DrawSurface(pat, surf) == Generate(pat, ResizeCanvas(surf))

\* what the generator of a pattern reads of the component's state
Reads(pat) ==
    [gen |-> pat,
     params |-> CASE pat = "tree" -> treeParams
                  [] pat = "spirograph" -> spiroParams
                  [] pat = "flow" -> flowParams,
     useRainbow |-> useRainbow,
     baseHue |-> baseHue]

\* a render in which no dependency of the draw effect is found changed
DrawSkipped(pat) ==
    /\ drawPending' = FALSE
    /\ UNCHANGED <<surface, ctx, drawn, rendersSinceTick>>

\* a state change of a dependency of the draw effect, made in an event
\* handler: React renders and runs the effect before the handler's event ends
DrawNow(pat) ==
    /\ surface' = DrawSurface(pat, surface)
    /\ ctx' = InitCtx
    /\ drawPending' = FALSE
    /\ drawn' = Reads(pat)'
    /\ rendersSinceTick' = rendersSinceTick + 1

genVars == <<pc, callStack, loopP, loopI, pos, stroked, noiseArgs, noiseValue, runs>>

\* onClick={() => setPattern(p)}
SetPattern(p) ==
    /\ mounted
    /\ inputs < MaxInputs
    /\ inputs' = inputs + 1
    /\ pattern' = p
    /\ UNCHANGED <<isAnimating, animationProgress, useRainbow, baseHue,
                   treeParams, spiroParams, flowParams, animationRef, frames,
                   lastFrameId, mounted, ticks, genVars>>
    /\ IF p # pattern THEN DrawNow(p)
       ELSE UNCHANGED <<surface, ctx, drawPending, drawn, rendersSinceTick>>

\* onClick={() => setIsAnimating(!isAnimating)} and the effect on
\* [isAnimating]: the cleanup of its previous run, then its body
ToggleAnimating(limit) ==
    /\ mounted
    /\ inputs < limit
    /\ inputs' = inputs + 1
    /\ isAnimating' = ~isAnimating
    /\ IF ~isAnimating
       THEN /\ lastFrameId' = lastFrameId + 1
            /\ frames' = RequestAnimationFrame(CancelCurrent(frames),
                                               lastFrameId + 1, AnimateClosure)
            /\ animationRef' = lastFrameId + 1
       ELSE /\ frames' = CancelCurrent(frames)
            /\ UNCHANGED <<lastFrameId, animationRef>>
    /\ UNCHANGED <<pattern, animationProgress, useRainbow, baseHue, treeParams,
                   spiroParams, flowParams, mounted, drawPending, drawn,
                   rendersSinceTick, ticks, ctx, surface, genVars>>

\* onClick={() => setUseRainbow(!useRainbow)}
ToggleRainbow ==
    /\ mounted
    /\ inputs < MaxInputs
    /\ inputs' = inputs + 1
    /\ useRainbow' = ~useRainbow
    /\ UNCHANGED <<pattern, isAnimating, animationProgress, baseHue, treeParams,
                   spiroParams, flowParams, animationRef, frames, lastFrameId,
                   mounted, ticks, genVars>>
    /\ DrawNow(pattern)

\* the base hue slider: min 0, max 360
SetBaseHue(h) ==
    /\ mounted
    /\ inputs < MaxInputs
    /\ h # baseHue
    /\ inputs' = inputs + 1
    /\ baseHue' = h
    /\ UNCHANGED <<pattern, isAnimating, animationProgress, useRainbow,
                   treeParams, spiroParams, flowParams, animationRef, frames,
                   lastFrameId, mounted, ticks, genVars>>
    /\ DrawNow(pattern)

\* slider values of the tree controls (shown while pattern is "tree"); the
\* handlers are taken to spread the record as last updated
TreeInputsWide ==
    {<<"branchAngle", 10000>>, <<"branchAngle", 60000>>,
     <<"depth", 3>>, <<"depth", 13>>, <<"branches", 6>>}
TreeInputs ==
    {<<"branchAngle", 10000>>, <<"branchAngle", 60000>>,
     <<"depth", 3>>, <<"depth", 12>>, <<"branches", 5>>}

SetTreeParam(f, v) ==
    /\ mounted
    /\ inputs < MaxInputs
    /\ pattern = "tree"
    /\ treeParams[f] # v
    /\ inputs' = inputs + 1
    /\ treeParams' = [treeParams EXCEPT ![f] = v]
    /\ UNCHANGED <<pattern, isAnimating, animationProgress, useRainbow, baseHue,
                   spiroParams, flowParams, animationRef, frames, lastFrameId,
                   mounted, ticks, genVars>>
    /\ DrawNow(pattern)

\* slider values of the spirograph controls (shown while pattern is "spirograph")
SpiroInputs ==
    {<<"innerRadius", 30000>>, <<"innerRadius", 200000>>, <<"iterations", 100>>}

SetSpiroParam(f, v) ==
    /\ mounted
    /\ inputs < MaxInputs
    /\ pattern = "spirograph"
    /\ spiroParams[f] # v
    /\ inputs' = inputs + 1
    /\ spiroParams' = [spiroParams EXCEPT ![f] = v]
    /\ UNCHANGED <<pattern, isAnimating, animationProgress, useRainbow, baseHue,
                   treeParams, flowParams, animationRef, frames, lastFrameId,
                   mounted, ticks, genVars>>
    /\ DrawNow(pattern)

\* slider values of the flow controls (shown while pattern is "flow")
FlowInputs ==
    {<<"noiseScale", 1000>>, <<"noiseScale", 50000>>, <<"steps", 50>>}

SetFlowParam(f, v) ==
    /\ mounted
    /\ inputs < MaxInputs
    /\ pattern = "flow"
    /\ flowParams[f] # v
    /\ inputs' = inputs + 1
    /\ flowParams' = [flowParams EXCEPT ![f] = v]
    /\ UNCHANGED <<pattern, isAnimating, animationProgress, useRainbow, baseHue,
                   treeParams, spiroParams, animationRef, frames, lastFrameId,
                   mounted, ticks, genVars>>
    /\ DrawNow(pattern)

\* a requested frame fires: one run of animate.  Its state updates are
\* rendered later, so the draw effect is left pending.
Animate(limit) ==
    /\ ticks < limit
    /\ \E f \in frames :
         IF ~mounted
         THEN /\ frames' = frames \ {f}
              /\ UNCHANGED <<animationProgress, treeParams, spiroParams,
                             flowParams, animationRef, lastFrameId, ticks,
                             drawPending, rendersSinceTick>>
         ELSE /\ animationProgress' = ProgressStep(animationProgress)
              /\ treeParams' =
                   IF f.closure.pattern = "tree"
                   THEN [treeParams EXCEPT !.branchAngle =
                           AnimatedAngle(f.closure.animationProgress)]
                   ELSE treeParams
              /\ spiroParams' =
                   IF f.closure.pattern = "spirograph"
                   THEN [spiroParams EXCEPT !.innerRadius =
                           AnimatedInner(f.closure.animationProgress)]
                   ELSE spiroParams
              /\ flowParams' =
                   IF f.closure.pattern = "flow"
                   THEN [flowParams EXCEPT !.noiseScale =
                           AnimatedScale(f.closure.animationProgress)]
                   ELSE flowParams
              /\ lastFrameId' = lastFrameId + 1
              /\ frames' = RequestAnimationFrame(frames \ {f}, lastFrameId + 1,
                                                 f.closure)
              /\ animationRef' = lastFrameId + 1
              /\ ticks' = ticks + 1
              /\ drawPending' = TRUE
              /\ rendersSinceTick' = 0
    /\ UNCHANGED <<pattern, isAnimating, useRainbow, baseHue, mounted, inputs,
                   drawn, ctx, surface, genVars>>

\* the draw effect, run after a render in which one of its dependencies changed
DrawEffect ==
    /\ mounted
    /\ drawPending
    /\ UNCHANGED <<pattern, isAnimating, animationProgress, useRainbow, baseHue,
                   treeParams, spiroParams, flowParams, animationRef, frames,
                   lastFrameId, mounted, ticks, inputs, genVars>>
    /\ DrawNow(pattern)

\* the component is removed: the cleanup of the effect on [isAnimating]
Unmount ==
    /\ mounted
    /\ inputs < MaxInputs
    /\ inputs' = inputs + 1
    /\ mounted' = FALSE
    /\ frames' = CancelCurrent(frames)
    /\ drawPending' = FALSE
    /\ UNCHANGED <<pattern, isAnimating, animationProgress, useRainbow, baseHue,
                   treeParams, spiroParams, flowParams, animationRef,
                   lastFrameId, ticks, drawn, rendersSinceTick, ctx, surface,
                   genVars>>

\* The component after it is mounted: the draw effect has drawn the tree, the
\* effect on [isAnimating] found nothing to cancel.
Init ==
    /\ InitIdle
    /\ pattern = "tree"
    /\ useRainbow = TRUE
    /\ baseHue = 200
    /\ treeParams = InitTreeParams
    /\ spiroParams = InitSpiroParams
    /\ flowParams = InitFlowParams
    /\ pc = "idle"
    /\ surface = DrawSurface("tree", <<>>)
    /\ drawn = Reads("tree")

Next ==
    \/ \E p \in Patterns : SetPattern(p)
    \/ ToggleAnimating(MaxInputs)
    \/ ToggleRainbow
    \/ \E h \in HueInputs : SetBaseHue(h)
    \/ \E in \in TreeInputs : SetTreeParam(in[1], in[2])
    \/ \E in \in SpiroInputs : SetSpiroParam(in[1], in[2])
    \/ \E in \in FlowInputs : SetFlowParam(in[1], in[2])
    \/ Animate(MaxTicks)
    \/ DrawEffect
    \/ Unmount

Spec == Init /\ [][Next]_vars

(***************************************************************************)
(* A long run of the animation: start, stop and the frames in between      *)
(***************************************************************************)
LongRun == 101
MaxToggles == 2

NextAnim == ToggleAnimating(MaxToggles) \/ Animate(LongRun) \/ DrawEffect

SpecAnim == Init /\ [][NextAnim]_vars

(***************************************************************************)
(* Claims about drawTree                                                   *)
(***************************************************************************)
RECURSIVE Pow(_, _)
Pow(b, e) == IF e = 0 THEN 1 ELSE b * Pow(b, e - 1)

\* 1 + b + ... + b^d
GeometricSum(b, d) ==
    IF b = 1 THEN d + 1 ELSE (Pow(b, d + 1) - 1) \div (b - 1)

\* the segments on the canvas, glow re-strokes not counted
TreeSegments ==
    {k \in 1 .. Len(surface) :
        surface[k].op = "stroke" /\ surface[k].gen = "tree" /\ surface[k].blur = 0}

\* C1: when drawTree has returned it has drawn 1 + b + ... + b^d segments
\* (d + 1 for b = 1), each a different drawBranch invocation; a tree of depth
\* 0 never has a second activation of drawBranch.
C1_SegmentCount ==
    /\ pc = "done" =>
          /\ Cardinality(TreeSegments)
               = GeometricSum(treeParams.branches, treeParams.depth)
          /\ Cardinality({surface[k].seg : k \in TreeSegments})
               = Cardinality(TreeSegments)
    /\ treeParams.depth = 0 => Len(callStack) <= 1

C1_Witness ==
    /\ pc = "done"
    /\ treeParams.depth = 2
    /\ treeParams.branches = 2
    /\ Cardinality(TreeSegments) = 7

\* C2: no activation of drawBranch has a depth below 0, every activation has
\* the depth of its caller minus one, and drawTree returns, whatever
\* lengthRatio is.
C2_Terminates ==
    /\ [](\A k \in 1 .. Len(callStack) :
            /\ callStack[k].depth >= 0
            /\ k > 1 => callStack[k].depth = callStack[k - 1].depth - 1)
    /\ <>(pc = "done")

C2_Witness ==
    /\ pc = "done"
    /\ treeParams.lengthRatio > 100
    /\ treeParams.depth >= 2
    /\ treeParams.branches >= 2

(***************************************************************************)
(* Claims about drawFlowField                                              *)
(***************************************************************************)
\* C3: after every step of a particle, after the wrap of that step, its
\* position satisfies 0 <= x < width and 0 <= y < height.
C3_InBounds ==
    (pc = "flowSteps" /\ loopI > 0) =>
        /\ 0 <= pos[1] /\ pos[1] < CanvasWidth
        /\ 0 <= pos[2] /\ pos[2] < CanvasHeight

FlowStrokes ==
    {k \in 1 .. Len(surface) : surface[k].op = "stroke" /\ surface[k].gen = "flow"}

SpiroStrokes ==
    {k \in 1 .. Len(surface) :
        surface[k].op = "stroke" /\ surface[k].gen = "spirograph"}

\* C7: each pass of drawSpirograph builds one path of iterations + 1 samples,
\* a moveTo for sample 0 followed by a lineTo for each of the samples 1 to
\* iterations, and strokes exactly that path.
C7_OnePath ==
    /\ \A k \in 1 .. Len(ctx.path) :
          ctx.path[k] = IF k = 1 THEN MoveTo(0) ELSE LineTo(k - 1)
    /\ \A k \in SpiroStrokes : surface[k].n = spiroParams.iterations
    /\ pc \in {"spiroGlow", "done"} =>
          /\ Len(stroked) = spiroParams.iterations + 1
          /\ \A k \in 1 .. Len(stroked) :
                stroked[k] = IF k = 1 THEN MoveTo(0) ELSE LineTo(k - 1)
    /\ pc = "done" => Cardinality(SpiroStrokes) = 2

C7_Witness ==
    /\ pc = "done"
    /\ spiroParams.iterations = 3
    /\ stroked = <<MoveTo(0), LineTo(1), LineTo(2), LineTo(3)>>
    /\ Cardinality(SpiroStrokes) = 2

\* C8: the segment of the curve that ends at sample i reaches the canvas with
\* hue (baseHue + (i / iterations) * 360) mod 360 in rainbow mode, and with
\* baseHue in mono mode.
C8_HueSweep ==
    \A k \in SpiroStrokes :
        surface[k].seg = "curve" =>
            \A i \in 1 .. surface[k].n :
                surface[k].hue =
                    IF useRainbow
                    THEN (baseHue + (i * 360) \div spiroParams.iterations) % 360
                    ELSE baseHue % 360

(***************************************************************************)
(* Claims about the animation                                              *)
(***************************************************************************)
\* C4: the progress is always one of the hundredths 0 .. 99, every tick moves
\* it to the next hundredth modulo 100 and so changes it, and after n ticks
\* from 0 it is n mod 100: 0 again after 100 ticks.
C4_ProgressCycle ==
    /\ [](animationProgress \in 0 .. 99 /\ animationProgress = ticks % 100)
    /\ [][ticks' # ticks =>
             /\ animationProgress' = (animationProgress + 1) % 100
             /\ animationProgress' # animationProgress]_vars

C4_Witness ==
    /\ ticks = 100
    /\ animationProgress = 0
    /\ isAnimating

\* C5: a tick sets the modulated field of the pattern that is selected at the
\* tick to base + amplitude * sin(2 pi progress), for the progress the
\* animation has at that tick (read before or after its advance).
C5_SineOfProgress ==
    [][ticks' # ticks =>
         \E p \in {animationProgress, animationProgress'} :
            CASE pattern = "tree" ->
                   treeParams'.branchAngle = 25000 + 10 * SinHundredths(p)
              [] pattern = "spirograph" ->
                   spiroParams'.innerRadius = 100000 + 30 * SinHundredths(p)
              [] pattern = "flow" ->
                   flowParams'.noiseScale = 10000 + 5 * SinHundredths(p)]_vars

\* r and s agree on every field but f
SameBut(r, s, f) == \A g \in DOMAIN r \ {f} : r[g] = s[g]

\* C6: a tick changes nothing but the modulated field of the record of the
\* pattern that is selected at the tick.
C6_OnlyActiveField ==
    [][ticks' # ticks =>
         CASE pattern = "tree" ->
                /\ SameBut(treeParams, treeParams', "branchAngle")
                /\ spiroParams' = spiroParams /\ flowParams' = flowParams
           [] pattern = "spirograph" ->
                /\ SameBut(spiroParams, spiroParams', "innerRadius")
                /\ treeParams' = treeParams /\ flowParams' = flowParams
           [] pattern = "flow" ->
                /\ SameBut(flowParams, flowParams', "noiseScale")
                /\ treeParams' = treeParams /\ spiroParams' = spiroParams]_vars

\* the generator calls whose strokes are on the bitmap
RendersOn(surf, gen) ==
    {k \in 1 .. Len(surf) : surf[k].op = "render" /\ surf[k].gen = gen}

\* C9: when a flow render follows a flow render, the strokes of the earlier
\* one are still on the bitmap, under the fade overlay of the later one.
C9_TrailsKept ==
    [][(/\ drawPending /\ ~drawPending' /\ mounted'
        /\ pattern' = "flow"
        /\ RendersOn(surface, "flow") # {}) =>
            Cardinality(RendersOn(surface', "flow")) >= 2]_vars

\* the generator calls on the bitmap
Renders(surf) == {k \in 1 .. Len(surf) : surf[k].op = "render"}

\* C13: every render invokes exactly one generator, the one of the pattern
\* selected at that render; the bitmap never holds the output of a generator
\* of another pattern than the selected one.
C13_OneGenerator ==
    /\ [][rendersSinceTick' = rendersSinceTick + 1 =>
             /\ Cardinality(Renders(surface')) = 1
             /\ RendersOn(surface', pattern') = Renders(surface')
             /\ drawn'.gen = pattern']_vars
    /\ [](Renders(surface) = RendersOn(surface, pattern))

\* the spirograph is selected and has been rendered after a tick
C13_Witness ==
    /\ pattern = "spirograph"
    /\ ticks > 0
    /\ ~drawPending
    /\ rendersSinceTick = 1
    /\ RendersOn(surface, "spirograph") # {}

\* C14: while the animation runs, ticks and renders alternate: between a tick
\* and the next tick exactly one render happens, and a render uses the
\* parameter values as the tick before it wrote them.
C14_Alternate ==
    /\ [][(ticks' = ticks + 1 /\ ticks >= 1) => rendersSinceTick = 1]_vars
    /\ [][rendersSinceTick' = rendersSinceTick + 1 => drawn' = Reads(pattern)']_vars

\* C14 as amended: every tick leaves a render due, and whenever no render is
\* due the bitmap was drawn by the selected pattern's generator from the
\* current values (those of the latest tick and of the control inputs since).
\* Between two ticks there may be no render, if the one due has not happened
\* yet, or several, since every control input renders as well.
C14_RenderDue ==
    /\ [][ticks' = ticks + 1 => (drawPending' /\ rendersSinceTick' = 0)]_vars
    /\ [][rendersSinceTick' = rendersSinceTick + 1 => drawn' = Reads(pattern)']_vars
    /\ []((mounted /\ ~drawPending) => drawn = Reads(pattern))

\* the animation is running, its second tick has been rendered, once
C14_Witness ==
    /\ isAnimating
    /\ ticks = 2
    /\ ~drawPending
    /\ rendersSinceTick = 1
    /\ drawn = Reads(pattern)

\* C15: in every reachable state the depth of the tree is a whole number of at
\* most 12 and its branch count a whole number of at most 5, so a tree render
\* has at most 1 + 5 + ... + 5^12 segments.
C15_TreeBounded ==
    /\ treeParams.depth \in Nat
    /\ treeParams.depth <= 12
    /\ treeParams.branches \in Nat
    /\ treeParams.branches <= 5
    /\ GeometricSum(treeParams.branches, treeParams.depth) <= GeometricSum(5, 12)

\* both sliders at their maximum, and a tick after that
C15_Witness ==
    /\ treeParams.depth = 12
    /\ treeParams.branches = 5
    /\ ticks > 0

\* C16: the base hue is at least 0 and less than 360 after any sequence of
\* inputs of the base hue slider.
C16_HueRange == 0 <= baseHue /\ baseHue < 360

\* C17: the inner radius of the spirograph is greater than 0 in every
\* reachable state: the slider delivers 30 to 200 and the animation writes
\* 100 + 30 * sin, which is at least 70 whatever the progress, so the curve
\* never divides by zero.
C17_InnerPositive ==
    /\ spiroParams.innerRadius > 0
    /\ spiroParams.innerRadius >= 30000
    /\ \A p \in 0 .. 99 : AnimatedInner(p) >= 70000

\* the slider was at its minimum and a tick of the spirograph's animation has
\* written the radius since
C17_Witness ==
    /\ pattern = "spirograph"
    /\ ticks > 0
    /\ inputs = 3
    /\ spiroParams.innerRadius = AnimatedInner(0)
    /\ drawn.gen = "spirograph" /\ drawn.params.innerRadius = 30000

\* the depth argument of the drawBranch call that stroked a segment: the
\* trunk <<0>> has treeParams.depth, every level below it one less
DepthOf(node) == treeParams.depth - (Len(node) - 1)

\* the glow re-strokes on the canvas
TreeGlows ==
    {k \in 1 .. Len(surface) :
        surface[k].op = "stroke" /\ surface[k].gen = "tree" /\ surface[k].blur > 0}

\* C18: for a tree of depth 3 or more, a segment is re-stroked with glow
\* exactly when it is in one of the three levels nearest the tips (the last
\* three levels reached before the base case); the trunk and the other
\* earlier levels get no glow.
C18_GlowAtTips ==
    treeParams.depth >= 3 =>
      \A k \in TreeSegments :
         (\E g \in TreeGlows : surface[g].seg = surface[k].seg)
           <=> DepthOf(surface[k].seg) < 3

\* the sum of the offsets of the first n children
RECURSIVE OffsetSum(_)
OffsetSum(n) == IF n = 0 THEN 0 ELSE ChildOffset(n - 1) + OffsetSum(n - 1)

\* the segments drawn by the recursive calls of the call that drew node
ChildrenOf(node) ==
    {surface[k].seg : k \in {j \in TreeSegments : Front(surface[j].seg) = node}}

\* C19: a drawBranch call with depth > 0 makes exactly `branches` recursive
\* calls, each from the end point of its parent with depth - 1; the angle
\* offsets (in half angle steps) are symmetric: child i and child
\* branches - 1 - i have opposite offsets, the offsets sum to 0, and
\* consecutive children are one angle step (two halves) apart.
C19_SymmetricFan ==
    /\ [](\A k \in 2 .. Len(callStack) :
            LET parent == callStack[k - 1]
                child == callStack[k]
                i == parent.i - 1
            IN /\ parent.depth > 0
               /\ i \in 0 .. treeParams.branches - 1
               /\ child.depth = parent.depth - 1
               /\ child.node = Append(parent.node, i)
               /\ child.angle - parent.angle = ChildOffset(i))
    /\ [](\A i \in 0 .. treeParams.branches - 1 :
            /\ ChildOffset(i) = -ChildOffset(treeParams.branches - 1 - i)
            /\ i > 0 => ChildOffset(i) - ChildOffset(i - 1) = 2)
    /\ [](OffsetSum(treeParams.branches) = 0)
    /\ [](pc = "done" =>
            \A k \in TreeSegments :
               LET node == surface[k].seg
               IN ChildrenOf(node) =
                    IF DepthOf(node) > 0
                    THEN {Append(node, i) : i \in 0 .. treeParams.branches - 1}
                    ELSE {})
    /\ [][(pc = "drawBranch" /\ Len(callStack') < Len(callStack)
             /\ Top.at = "loop") => Top.i = treeParams.branches]_vars
    /\ [][(pc = "drawBranch" /\ Len(callStack) >= 2 /\ surface' # surface) =>
            stroked'[1] = MoveTo(callStack[Len(callStack) - 1].node)]_vars

\* the third of three children is running, two half steps to one side
C19_Witness ==
    /\ pc = "drawBranch"
    /\ treeParams.branches = 3
    /\ Len(callStack) = 3
    /\ callStack[2].i = 3
    /\ callStack[3].angle = callStack[2].angle + 2
    /\ callStack[3].node = <<0, 1, 2>>

\* C20: once the animation is stopped (isAnimating false, its effect run) the
\* requested frame is cancelled and no tick runs: the progress stays as it
\* is, and so do the three parameter records unless a control input changes
\* them, until the animation is started again.
C20_StoppedNoTick ==
    /\ []((mounted /\ ~isAnimating) => frames = {})
    /\ [][(~isAnimating /\ ~isAnimating') =>
            /\ ticks' = ticks
            /\ animationProgress' = animationProgress
            /\ inputs' = inputs =>
                 /\ treeParams' = treeParams
                 /\ spiroParams' = spiroParams
                 /\ flowParams' = flowParams]_vars

\* the animation ran for two ticks, was stopped, and an input came after that
C20_Witness ==
    /\ mounted
    /\ ~isAnimating
    /\ ticks = 2
    /\ animationRef # 0
    /\ frames = {}
    /\ inputs = 3

\* C21: whatever the interleaving of start and stop, frame callbacks and
\* unmount, at most one animation frame is requested at a time, and its id is
\* the one in animationRef.current; a frame is requested only while the
\* animation is on and the component mounted, so there is never a second loop.
C21_OneFrame ==
    /\ Cardinality(frames) <= 1
    /\ \A f \in frames : f.id = animationRef
    /\ frames # {} => (isAnimating /\ mounted)

\* the animation was started, ticked, was stopped and started again: the one
\* frame requested is that of the second start
C21_Witness ==
    /\ isAnimating
    /\ inputs = 3
    /\ ticks >= 1
    /\ Cardinality(frames) = 1
    /\ animationRef = lastFrameId
    /\ animationRef >= 3

\* C22: when drawTree, drawSpirograph or drawFlowField returns, shadowBlur is
\* 0, globalAlpha has the value it had before the call and every save() has
\* been undone by a restore(), so the generator leaves no glow and no reduced
\* opacity behind; while it runs at most one save() is open.
C22_StateRestored ==
    /\ pc = "done" =>
         /\ ctx.shadowBlur = InitCtx.shadowBlur
         /\ ctx.shadowBlur = 0
         /\ ctx.globalAlpha = InitCtx.globalAlpha
         /\ ctx.saved = InitCtx.saved
    /\ Len(ctx.saved) <= 1

\* a generator has returned after strokes with glow and with reduced opacity
C22_Witness ==
    /\ pc = "done"
    /\ \E k \in 1 .. Len(surface) :
         surface[k].op = "stroke" /\ surface[k].blur > 0 /\ surface[k].alpha < 100
    /\ ctx.globalAlpha = 100

C12_NoiseRange == noiseValue \in -1750 .. 1750

\* a call in which the octaves add up to less than -1.4
C12_Witness == pc = "noise" /\ noiseArgs # <<0, 0>> /\ noiseValue < -1400

====
